---- MODULE Spec2Model ----
(***************************************************************************)
(* Model of gcontact-filter.py: the per-row parse pass (cleanup, name      *)
(* casing, tagging with phone formatting, identity key, duplicate          *)
(* handling), the tag filter, the interactive e-mail inspection and the    *)
(* export step, driven in the order main() drives them.                    *)
(*                                                                         *)
(* A cell is a Python string, modelled as a sequence of one-character      *)
(* strings, so that strip/lower/title/re.sub/replace/split are computed    *)
(* character by character as the code computes them.                       *)
(***************************************************************************)
EXTENDS Naturals, Sequences, FiniteSets

\* ------------------------------------------------------------------------
\* Bounds of the model
\* ------------------------------------------------------------------------

\* number of data rows read from the csv file
MaxRows == 3

\* number of data rows of the runs whose e-mails are inspected
MaxFixRows == 2

\* length of the names drawn for the identity-key specification
MaxNameLen == 3

\* ------------------------------------------------------------------------
\* Python string operations
\* ------------------------------------------------------------------------

LowerChars ==
  <<"a","b","c","d","e","f","g","h","i","j","k","l","m",
    "n","o","p","q","r","s","t","u","v","w","x","y","z">>

UpperChars ==
  <<"A","B","C","D","E","F","G","H","I","J","K","L","M",
    "N","O","P","Q","R","S","T","U","V","W","X","Y","Z">>

Range(s) == { s[i] : i \in DOMAIN s }

Whitespace == {" ", "\t"}

LowerSet == Range(LowerChars)

UpperSet == Range(UpperChars)

\* the lower-case letter of each upper-case letter, and the converse
LowerOf ==
  [c \in UpperSet |->
     LowerChars[CHOOSE i \in DOMAIN UpperChars : UpperChars[i] = c]]

UpperOf ==
  [c \in LowerSet |->
     UpperChars[CHOOSE i \in DOMAIN LowerChars : LowerChars[i] = c]]

IsLower(c) == c \in LowerSet

IsUpper(c) == c \in UpperSet

IsCased(c) == IsLower(c) \/ IsUpper(c)

ToLower(c) == IF IsUpper(c) THEN LowerOf[c] ELSE c

ToUpper(c) == IF IsLower(c) THEN UpperOf[c] ELSE c

RECURSIVE lstrip(_)
lstrip(s) ==
  IF s # <<>> /\ Head(s) \in Whitespace THEN lstrip(Tail(s)) ELSE s

RECURSIVE rstrip(_)
rstrip(s) ==
  IF s # <<>> /\ s[Len(s)] \in Whitespace
  THEN rstrip(SubSeq(s, 1, Len(s) - 1))
  ELSE s

\* str.strip()
strip(s) == rstrip(lstrip(s))

\* str.lower()
lower(s) == [i \in 1..Len(s) |-> ToLower(s[i])]

\* str.title(): a cased character is upper-cased when the character before
\* it is not cased, lower-cased otherwise
title(s) ==
  [i \in 1..Len(s) |->
     IF i = 1 \/ ~IsCased(s[i-1]) THEN ToUpper(s[i]) ELSE ToLower(s[i])]

StartsWith(s, pat) ==
  Len(s) >= Len(pat) /\ SubSeq(s, 1, Len(pat)) = pat

\* str.replace(pat, rep) / re.sub of a literal pattern: every non-overlapping
\* occurrence, left to right
RECURSIVE replace(_, _, _)
replace(s, pat, rep) ==
  IF s = <<>> THEN <<>>
  ELSE IF StartsWith(s, pat)
       THEN rep \o replace(SubSeq(s, Len(pat) + 1, Len(s)), pat, rep)
       ELSE <<Head(s)>> \o replace(Tail(s), pat, rep)

\* str.split(sep): the list of the parts between the occurrences of sep
RECURSIVE split_from(_, _, _)
split_from(s, sep, cur) ==
  IF s = <<>> THEN <<cur>>
  ELSE IF StartsWith(s, sep)
       THEN <<cur>> \o split_from(SubSeq(s, Len(sep) + 1, Len(s)), sep, <<>>)
       ELSE split_from(Tail(s), sep, Append(cur, Head(s)))

split(s, sep) == split_from(s, sep, <<>>)

\* sep.join(parts)
RECURSIVE join(_, _)
join(sep, parts) ==
  IF parts = <<>> THEN <<>>
  ELSE IF Len(parts) = 1 THEN parts[1]
       ELSE parts[1] \o sep \o join(sep, Tail(parts))

\* the multi-value tokens of the code
Colons == <<":", ":", ":">>

Joiner == <<" ", ":", ":", ":", " ">>

\* ------------------------------------------------------------------------
\* Module-level functions
\* ------------------------------------------------------------------------

\* format_phone(value)
format_phone(value) ==
  LET v1 == replace(value, <<" ">>, <<>>)
      v2 == replace(v1, <<"(">>, <<>>)
      v3 == replace(v2, <<")">>, <<>>)
      v4 == IF StartsWith(v3, <<"0">>)
            THEN <<"+", "3", "3">> \o Tail(v3)
            ELSE v3
      v5 == replace(v4, Colons \o <<"0">>, Colons \o <<"+", "3", "3">>)
  IN replace(v5, Colons, Joiner)

\* format_index without name.lower()
format_index_no_lower(name) ==
  LET n == strip(name)
  IN [i \in 1..Len(n) |-> IF IsLower(n[i]) THEN n[i] ELSE "-"]

\* format_index without name.strip()
format_index_no_strip(name) ==
  LET n == lower(name)
  IN [i \in 1..Len(n) |-> IF IsLower(n[i]) THEN n[i] ELSE "-"]

\* format_index(name)
format_index(name) ==
  LET n == lower(strip(name))
  IN [i \in 1..Len(n) |-> IF IsLower(n[i]) THEN n[i] ELSE "-"]

\* merge_lists with s and d swapped in the concatenation
merge_cell_swapped(s, d) == IF s # <<>> /\ d # s THEN s \o Joiner \o d ELSE d

\* one cell of merge_lists: d+' ::: '+s if s and d != s else d
merge_cell(s, d) == IF s # <<>> /\ d # s THEN d \o Joiner \o s ELSE d

\* merge_lists(src, dest), for rows of the same size
merge_lists(src, dest) ==
  [i \in 1..Len(dest) |-> merge_cell(src[i], dest[i])]

\* ------------------------------------------------------------------------
\* The table: headers and rows
\* ------------------------------------------------------------------------

\* data.headers: the first record of the csv file. Every record of the model
\* has one cell per header.
Headers ==
  <<"Name", "Phone 1 - Value", "E-mail 1 - Value", "E-mail 2 - Value", "Notes">>

\* the headers of the model that each pattern of the code matches (re.match)
PatternFields(pattern) ==
  CASE pattern = "Name" -> {"Name"}
    [] pattern = ".*Name.*" -> {"Name"}
    [] pattern = "Phone [0-9]+ - Value" -> {"Phone 1 - Value"}
    [] pattern = "E-mail [0-9]+ - Value" -> {"E-mail 1 - Value", "E-mail 2 - Value"}
    [] pattern = "cleanup" -> {"Notes"}

\* headers.index(field)
HeaderIndex(field) == CHOOSE i \in DOMAIN Headers : Headers[i] = field

\* GoogleContactRow.select_fields(pattern), as column numbers in header order
select_fields(pattern) ==
  { i \in DOMAIN Headers : Headers[i] \in PatternFields(pattern) }

NameCol == HeaderIndex("Name")

PhoneCol == HeaderIndex("Phone 1 - Value")

\* GoogleContactRow.clean_fields / standard_cleanup
standard_cleanup(row) ==
  [i \in DOMAIN row |-> IF i \in select_fields("cleanup") THEN <<>> ELSE row[i]]

\* GoogleContactRow.format_names
format_names(row) ==
  [i \in DOMAIN row |-> IF i \in select_fields(".*Name.*") THEN title(row[i]) ELSE row[i]]

\* GoogleContactRow.has_fields: the tags earned by the fields
has_fields_tags(row, fields, tags) ==
  IF \E i \in fields : strip(row[i]) # <<>> THEN tags ELSE {}

\* GoogleContactRow.has_name
has_name(row) == has_fields_tags(row, select_fields("Name"), {"name"})

\* GoogleContactRow.has_phone: the tags
has_phone(row) ==
  has_fields_tags(row, select_fields("Phone [0-9]+ - Value"), {"phone"})

\* GoogleContactRow.has_phone: the cells after the format_phone callback,
\* applied to every non-blank phone cell. The callback is called through
\* eval('format_phone("%s")' % cell); the cells of the model hold no quote and
\* no backslash, for which that is format_phone(cell).
has_phone_cells(row) ==
  [i \in DOMAIN row |->
     IF i \in select_fields("Phone [0-9]+ - Value") /\ strip(row[i]) # <<>>
     THEN format_phone(row[i])
     ELSE row[i]]

\* the gRow and tags of one csv record, as parse() builds them before it
\* looks at the index
gRow(raw) ==
  LET named == format_names(standard_cleanup(raw))
  IN [row |-> has_phone_cells(named),
      tags |-> has_name(named) \cup has_phone(named)]

\* tablib Row(value): a row built without tags
Row(cells) == [row |-> cells, tags |-> {}]

\* the index of a csv record
RowIndex(raw) == format_index(gRow(raw).row[NameCol])

\* is_duplicate looking at the last index only
is_duplicate_last(h, value) == h # <<>> /\ h[Len(h)] = value

\* GoogleContact.is_duplicate
is_duplicate(h, value) == value \in Range(h)

\* tuple.index(value): the first position holding value
TupleIndex(h, value) ==
  CHOOSE i \in DOMAIN h : h[i] = value /\ \A j \in 1..(i-1) : h[j] # value

\* data[row_dst] = value: tablib replaces the row by Row(value)
SetItem(d, k, cells) == [d EXCEPT ![k] = Row(cells)]

\* ------------------------------------------------------------------------
\* The csv records of the model
\* ------------------------------------------------------------------------

E == <<>>

N_john == <<" ","j","o","h","n"," ","d","o","e"," ">>

N_John == <<"J","o","h","n"," ","D","o","e">>

N_OBrien == <<"O","'","B","r","i","e","n"," ">>

N_obrien == <<"o"," ","b","r","i","e","n">>

N_obrien2 == <<"o"," "," ","b","r","i","e","n">>

P_0601 == <<"0","6","0","1","0","2","0","3","0","4">>

P_0607 == <<"(","0","6",")"," ","0","7">>

M_a == <<"a","@","x">>

M_b == <<"b","@","x">>

M_ab == <<"a","@","x"," ",":",":",":"," ","b","@","x">>

M_cd == <<"c","@","x",":",":",":","d","@","x">>

RowPool ==
  { <<N_john,    P_0601, E,    E,    E>>,
    <<N_John,    E,      E,    E,    E>>,
    <<E,         P_0601, E,    E,    E>>,
    <<<<" ">>,   E,      M_a,  E,    <<"n">>>>,
    <<N_OBrien,  E,      M_ab, M_cd, E>>,
    <<N_obrien,  P_0607, M_b,  E,    <<"n">>>>,
    <<N_obrien2, E,      M_ab, E,    E>> }

\* the characters of the names drawn for the identity-key specification: a
\* letter in both cases, another letter, a space and a punctuation mark
NameAlphabet == {"a", "A", "b", " ", "'"}

\* the names of at most k characters
NamesUpTo(k) == UNION { [1..m -> NameAlphabet] : m \in 0..k }

\* the csv record of a contact that has only a name
NameRow(name) == <<name, E, E, E, E>>

\* the tag lists main() may pass to filter(): --tags split on commas
TagArgs ==
  { <<"phone">>, <<"name">>, <<"name", "phone">>, <<"email">> }

\* the reviewer's answers to a prompt; EOF is the end of the interactive input
Answers == {"y", "n", "EOF"}

\* ------------------------------------------------------------------------
\* Filter, e-mail inspection
\* ------------------------------------------------------------------------

\* has_tag asking for every tag of the list
has_tag_all(r, tags) == Range(tags) \subseteq r.tags

\* tablib Row.has_tag(tag) for a list of tags
has_tag(r, tags) == Cardinality(Range(tags) \cap r.tags) # 0

\* tablib Dataset.filter(tag): [row for row in _data if row.has_tag(tag)]
RECURSIVE DatasetFilter(_, _)
DatasetFilter(d, tags) ==
  IF d = <<>> THEN <<>>
  ELSE IF has_tag(Head(d), tags)
       THEN <<Head(d)>> \o DatasetFilter(Tail(d), tags)
       ELSE DatasetFilter(Tail(d), tags)

\* the numbers of a set in increasing order (for columns: header order)
RECURSIVE FieldSeq(_)
FieldSeq(S) ==
  IF S = {} THEN <<>>
  ELSE LET m == CHOOSE i \in S : \A j \in S : i <= j
       IN <<m>> \o FieldSeq(S \ {m})

\* the e-mail columns inspect_email walks through
EmailFields == FieldSeq(select_fields("E-mail [0-9]+ - Value"))

\* [e.strip() for e in row[index].split(":::")]
EmailsOf(cell) ==
  LET parts == split(cell, Colons)
  IN [i \in DOMAIN parts |-> strip(parts[i])]

\* GoogleContactRow.inspect_email(fix=False)[1]
HasMultiple(cells) ==
  \E i \in Range(EmailFields) : Len(EmailsOf(cells[i])) >= 2

\* the first loop of GoogleContact.inspect_email: the contacts to fix
CountMultiple(d) == Cardinality({ i \in DOMAIN d : HasMultiple(d[i].row) })

\* row[index] = None
None == <<"None">>

\* row[index] once the reviewer is done with a field
StoredEmails(kept) == IF Len(kept) # 0 THEN join(Joiner, kept) ELSE None

\* ------------------------------------------------------------------------
\* State
\* ------------------------------------------------------------------------

VARIABLES
  pc,              \* where main() is
  drop,            \* GoogleContact.drop
  merge,           \* GoogleContact.merge
  consumed,        \* the csv records read so far
  data,            \* the Dataset being built by parse(), then self.data
  hash,            \* GoogleContact.hash
  filters,         \* the tag list given to filter()
  has_filtered,    \* hasattr(self, 'filtered_data')
  filtered_data,   \* GoogleContact.filtered_data
  row_num,         \* the row of the second loop of inspect_email
  fld,             \* the position in the e-mail fields of that row
  work,            \* gRow._row of that row
  has_multiple,    \* has_multiple of that row
  emails,          \* the e-mails of the field under review
  email_pos,       \* the e-mail the reviewer is asked about
  filtered_emails, \* the e-mails kept so far in the field
  eof_row,         \* the row in which the input last ended, 0 if none
  n,               \* the contacts to fix
  c,               \* the contacts fixed
  outcome,         \* how the run ended
  output,          \* what export() wrote
  name_a,          \* identity-key specification: the Name cell of a record
  name_b,          \* identity-key specification: the Name cell of another
  key_a,           \* the index parse() computes for the first
  key_b            \* the index parse() computes for the second

parse_vars == <<drop, merge, consumed, data, hash>>

inspect_vars ==
  <<row_num, fld, work, has_multiple, emails, email_pos, filtered_emails,
    eof_row, n, c>>

key_vars == <<name_a, name_b, key_a, key_b>>

vars ==
  <<pc, parse_vars, filters, has_filtered, filtered_data, inspect_vars,
    outcome, output, key_vars>>

\* the state of a GoogleContact before parse() reads a record
Fresh ==
  /\ consumed = <<>>
  /\ data = <<>>
  /\ hash = <<>>
  /\ filters = <<>>
  /\ has_filtered = FALSE
  /\ filtered_data = <<>>
  /\ row_num = 0
  /\ fld = 0
  /\ work = <<>>
  /\ has_multiple = FALSE
  /\ emails = <<>>
  /\ email_pos = 0
  /\ filtered_emails = <<>>
  /\ eof_row = 0
  /\ n = 0
  /\ c = 0
  /\ outcome = "running"
  /\ output = <<>>

Init ==
  /\ pc = "parse"
  /\ drop \in BOOLEAN
  /\ merge \in BOOLEAN
  /\ Fresh
  /\ name_a = <<>>
  /\ name_b = <<>>
  /\ key_a = <<>>
  /\ key_b = <<>>

\* one iteration of the loop of parse() over a data record
ParseRow(raw) ==
  /\ pc = "parse"
  /\ Len(consumed) < MaxRows
  /\ consumed' = Append(consumed, raw)
  /\ LET g == gRow(raw)
         index == format_index(g.row[NameCol])
     IN IF index = <<>>
        THEN UNCHANGED <<data, hash>>
        ELSE IF is_duplicate(hash, index) /\ drop
        THEN UNCHANGED <<data, hash>>
        ELSE IF is_duplicate(hash, index) /\ merge
        THEN LET row_dst == TupleIndex(hash, index)
             IN /\ data' = SetItem(data, row_dst, merge_lists(g.row, data[row_dst].row))
                /\ UNCHANGED hash
        ELSE /\ hash' = Append(hash, index)
             /\ data' = Append(data, g)
  /\ UNCHANGED <<pc, drop, merge, filters, has_filtered, filtered_data,
                 inspect_vars, outcome, output, key_vars>>

\* the end of the csv file: self.data = data
EndParse ==
  /\ pc = "parse"
  /\ pc' = "main"
  /\ UNCHANGED <<parse_vars, filters, has_filtered, filtered_data,
                 inspect_vars, outcome, output, key_vars>>

\* main() with --tags: GoogleContact.filter(tags)
Filter(tags) ==
  /\ pc = "main"
  /\ filters' = tags
  /\ filtered_data' = DatasetFilter(data, tags)
  /\ has_filtered' = TRUE
  /\ pc' = "post_filter"
  /\ UNCHANGED <<parse_vars, inspect_vars, outcome, output, key_vars>>

\* main() without --tags: no call of filter()
SkipFilter ==
  /\ pc = "main"
  /\ pc' = "post_filter"
  /\ UNCHANGED <<parse_vars, filters, has_filtered, filtered_data,
                 inspect_vars, outcome, output, key_vars>>

\* main() with --fix-emails: GoogleContact.inspect_email(fix=True) up to the
\* start of its second loop; self.filtered_data is read without a guard
BeginInspect ==
  /\ pc = "post_filter"
  /\ Len(consumed) <= MaxFixRows
  /\ IF has_filtered
     THEN /\ n' = CountMultiple(filtered_data)
          /\ row_num' = 1
          /\ fld' = 1
          /\ work' = IF filtered_data = <<>> THEN <<>> ELSE filtered_data[1].row
          /\ pc' = "inspect"
          /\ UNCHANGED outcome
     ELSE /\ outcome' = "AttributeError"
          /\ pc' = "done"
          /\ UNCHANGED <<n, row_num, fld, work>>
  /\ UNCHANGED <<parse_vars, filters, has_filtered, filtered_data,
                 has_multiple, emails, email_pos, filtered_emails, eof_row,
                 c, output, key_vars>>

\* main() without --fix-emails
SkipInspect ==
  /\ pc = "post_filter"
  /\ pc' = "export"
  /\ UNCHANGED <<parse_vars, filters, has_filtered, filtered_data,
                 inspect_vars, outcome, output, key_vars>>

\* GoogleContactRow.inspect_email(fix=True): the head of the loop over the
\* fields, up to the first prompt of the field
InspectField ==
  /\ pc = "inspect"
  /\ row_num <= Len(filtered_data)
  /\ fld <= Len(EmailFields)
  /\ LET es == EmailsOf(work[EmailFields[fld]])
     IN IF Len(es) < 2
        THEN /\ fld' = fld + 1
             /\ UNCHANGED <<pc, has_multiple, emails, email_pos, filtered_emails>>
        ELSE /\ has_multiple' = TRUE
             /\ emails' = es
             /\ email_pos' = 1
             /\ filtered_emails' = <<>>
             /\ pc' = "prompt"
             /\ UNCHANGED fld
  /\ UNCHANGED <<parse_vars, filters, has_filtered, filtered_data,
                 row_num, work, eof_row, n, c, outcome, output, key_vars>>

\* the reviewer's answer r to "keep <email> (y/N)?", and what follows it up to
\* the next prompt of the field or the storing of the field
Answer(r) ==
  /\ pc = "prompt"
  /\ LET keep == (r = "y")
         abort == (r = "EOF")
         kept == IF keep
                 THEN Append(filtered_emails, emails[email_pos])
                 ELSE filtered_emails
     IN /\ eof_row' = IF abort THEN row_num ELSE eof_row
        /\ IF abort \/ email_pos = Len(emails)
           THEN /\ work' = [work EXCEPT ![EmailFields[fld]] = StoredEmails(kept)]
                /\ fld' = fld + 1
                /\ emails' = <<>>
                /\ email_pos' = 0
                /\ filtered_emails' = <<>>
                /\ pc' = "inspect"
           ELSE /\ filtered_emails' = kept
                /\ email_pos' = email_pos + 1
                /\ UNCHANGED <<work, fld, emails, pc>>
  /\ UNCHANGED <<parse_vars, filters, has_filtered, filtered_data,
                 row_num, has_multiple, n, c, outcome, output, key_vars>>

\* the end of the fields of a row: self.filtered_data[row_num] = row, and the
\* count of the contacts fixed
EndRow ==
  /\ pc = "inspect"
  /\ row_num <= Len(filtered_data)
  /\ fld > Len(EmailFields)
  /\ filtered_data' = SetItem(filtered_data, row_num, work)
  /\ c' = IF has_multiple THEN c + 1 ELSE c
  /\ row_num' = row_num + 1
  /\ fld' = 1
  /\ work' = IF row_num < Len(filtered_data)
             THEN filtered_data[row_num + 1].row
             ELSE <<>>
  /\ has_multiple' = FALSE
  /\ UNCHANGED <<pc, parse_vars, filters, has_filtered, emails, email_pos,
                 filtered_emails, eof_row, n, outcome, output, key_vars>>

\* the end of the second loop of inspect_email
EndInspect ==
  /\ pc = "inspect"
  /\ row_num > Len(filtered_data)
  /\ pc' = "export"
  /\ UNCHANGED <<parse_vars, filters, has_filtered, filtered_data,
                 inspect_vars, outcome, output, key_vars>>

\* GoogleContact.export
Export ==
  /\ pc = "export"
  /\ IF ~has_filtered
     THEN /\ outcome' = "Nothing to export"
          /\ UNCHANGED output
     ELSE /\ outcome' = "exported"
          /\ output' = [i \in DOMAIN filtered_data |-> filtered_data[i].row]
  /\ pc' = "done"
  /\ UNCHANGED <<parse_vars, filters, has_filtered, filtered_data,
                 inspect_vars, key_vars>>

Next ==
  \/ \E raw \in RowPool : ParseRow(raw)
  \/ EndParse
  \/ \E tags \in TagArgs : Filter(tags)
  \/ SkipFilter
  \/ BeginInspect
  \/ SkipInspect
  \/ InspectField
  \/ \E r \in Answers : Answer(r)
  \/ EndRow
  \/ EndInspect
  \/ Export

Spec == Init /\ [][Next]_vars

\* ------------------------------------------------------------------------
\* The identity key, as a function of the Name cell: two records that hold
\* only a name, and the index parse() computes for each
\* ------------------------------------------------------------------------

InitKey ==
  /\ pc = "key"
  /\ drop = FALSE
  /\ merge = FALSE
  /\ Fresh
  /\ name_a \in NamesUpTo(MaxNameLen)
  /\ name_b \in NamesUpTo(MaxNameLen)
  /\ key_a = <<>>
  /\ key_b = <<>>

\* lines 309-318 of parse() on each of the two records
ComputeKeys ==
  /\ pc = "key"
  /\ key_a' = RowIndex(NameRow(name_a))
  /\ key_b' = RowIndex(NameRow(name_b))
  /\ pc' = "keyed"
  /\ UNCHANGED <<parse_vars, filters, has_filtered, filtered_data,
                 inspect_vars, outcome, output, name_a, name_b>>

NextKey == ComputeKeys

SpecKey == InitKey /\ [][NextKey]_vars

\* ------------------------------------------------------------------------
\* Properties
\* ------------------------------------------------------------------------

\* the index of each of the records
KeysOf(cons) == [i \in DOMAIN cons |-> RowIndex(cons[i])]

\* the records that are the first to have their (non-empty) index
FirstSeenOf(cons) ==
  LET keys == KeysOf(cons)
  IN { i \in DOMAIN cons :
         /\ keys[i] # <<>>
         /\ \A j \in 1..(i-1) : keys[j] # keys[i] }

MergeMode == merge /\ ~drop

\* the Name cell is blank after trimming
BlankName(cells) == strip(cells[NameCol]) = <<>>

\* the rows of data that share a tag with the requested tags
KeptRows == { i \in DOMAIN data : Range(filters) \cap data[i].tags # {} }

\* C1: right after filter(T), the filtered table holds exactly the rows of the
\* parsed table whose tag set shares a tag with T, in the order of the parsed
\* table (so every row left out has a tag set disjoint from T).
C1_FilterKeepsMatchingRows ==
  (pc = "post_filter" /\ has_filtered) =>
    /\ Len(filtered_data) = Cardinality(KeptRows)
    /\ LET kept == FieldSeq(KeptRows)
       IN \A k \in DOMAIN filtered_data : filtered_data[k] = data[kept[k]]

C1_Witness ==
  /\ pc = "post_filter"
  /\ has_filtered
  /\ filters = <<"phone">>
  /\ Len(data) = 3
  /\ Len(filtered_data) = 2
  /\ filtered_data[2] = data[3]

\* C2: in drop mode, after every record parse() has processed, the table
\* holds one row per distinct non-empty index seen so far: the first record
\* that had it, as parse() normalised it, in the order of first occurrence;
\* hash holds those indexes.
C2_DropKeepsFirstSeen ==
  (drop /\ pc \in {"parse", "main"}) =>
    /\ Len(data) = Cardinality(FirstSeenOf(consumed))
    /\ Len(hash) = Len(data)
    /\ LET first == FieldSeq(FirstSeenOf(consumed))
       IN \A k \in DOMAIN data :
            /\ data[k] = gRow(consumed[first[k]])
            /\ hash[k] = RowIndex(consumed[first[k]])

C2_Witness ==
  /\ drop
  /\ pc = "parse"
  /\ Len(consumed) = 3
  /\ Len(data) = 2
  /\ RowIndex(consumed[3]) = RowIndex(consumed[1])
  /\ consumed[3] # consumed[1]
  /\ RowIndex(consumed[2]) # RowIndex(consumed[1])

\* C3: in merge mode a record whose index was already seen is not appended: it
\* is folded into the row at the output position of the first record with that
\* index and into no other row, each cell becoming `existing ::: incoming` when
\* both are non-empty and differ and staying as it was when the incoming cell
\* is empty or equal; the table keeps one row per distinct non-empty index.
C3_MergeStep ==
  LET raw == consumed'[Len(consumed')]
      inc == gRow(raw).row
      key == RowIndex(raw)
      keys == KeysOf(consumed)
      first == CHOOSE i \in DOMAIN consumed :
                 /\ keys[i] = key
                 /\ \A j \in 1..(i-1) : keys[j] # key
      k == Cardinality({ i \in FirstSeenOf(consumed) : i <= first })
  IN (/\ pc = "parse"
      /\ MergeMode
      /\ Len(consumed') = Len(consumed) + 1) =>
       /\ Len(data') = Cardinality(FirstSeenOf(consumed'))
       /\ (key # <<>> /\ key \in Range(keys)) =>
            /\ Len(data') = Len(data)
            /\ \A j \in DOMAIN data : j # k => data'[j] = data[j]
            /\ \A col \in DOMAIN Headers :
                 LET ex == data[k].row[col]
                     new == data'[k].row[col]
                 IN /\ (ex # <<>> /\ inc[col] # <<>> /\ ex # inc[col])
                         => new = ex \o Joiner \o inc[col]
                    /\ (inc[col] = <<>> \/ inc[col] = ex) => new = ex

C3_MergeFoldsIntoFirstSeen == [][C3_MergeStep]_vars

C3_Witness ==
  /\ pc = "parse"
  /\ MergeMode
  /\ Len(consumed) = 3
  /\ Len(data) = 1
  /\ consumed[1][NameCol] = N_obrien
  /\ consumed[2][NameCol] = N_OBrien
  /\ consumed[3][NameCol] = N_obrien
  /\ data[1].row[HeaderIndex("E-mail 1 - Value")]
       = M_b \o Joiner \o M_ab \o Joiner \o M_b
  /\ data[1].row[PhoneCol] = <<"+", "3", "3", "6", "0", "7">>

\* no row of the table has a blank Name cell
NoBlankName(d) == \A i \in DOMAIN d : ~BlankName(d[i].row)

\* C4: a record whose Name cell is blank after trimming is never in the parsed
\* table, the filtered table or the output, whatever the mode and the tags; it
\* adds nothing to hash and changes no row of the table.
C4_Step ==
  /\ NoBlankName(data')
  /\ NoBlankName(filtered_data')
  /\ \A i \in DOMAIN output' : ~BlankName(output'[i])
  /\ <<>> \notin Range(hash')
  /\ (/\ pc = "parse"
      /\ Len(consumed') = Len(consumed) + 1
      /\ BlankName(consumed'[Len(consumed')])) =>
       /\ data' = data
       /\ hash' = hash

C4_BlankNameNeverKept == [][C4_Step]_vars

C4_Witness ==
  /\ pc = "post_filter"
  /\ has_filtered
  /\ filters = <<"phone">>
  /\ \E i \in DOMAIN consumed :
       /\ i > 1
       /\ BlankName(consumed[i])
       /\ strip(consumed[i][PhoneCol]) # <<>>
  /\ Len(filtered_data) >= 1

\* the non-letters at the head of a string
RECURSIVE DropNonLetters(_)
DropNonLetters(s) ==
  IF s # <<>> /\ ~IsLower(Head(s)) THEN DropNonLetters(Tail(s)) ELSE s

\* every run of non-letters of a lower-case string as one separator
RECURSIVE Collapse(_)
Collapse(s) ==
  IF s = <<>> THEN <<>>
  ELSE IF IsLower(Head(s))
       THEN <<Head(s)>> \o Collapse(Tail(s))
       ELSE <<"-">> \o Collapse(DropNonLetters(s))

\* two names that differ only in case, in surrounding whitespace and in which
\* and how many non-letters make up each run of non-letters
SameLetterGroups(a, b) ==
  Collapse(lower(strip(a))) = Collapse(lower(strip(b)))

\* two names that, once trimmed, have the same length, the same letters up to
\* case at the same places and non-letters at the same places
SameShape(a, b) ==
  LET x == strip(a)
      y == strip(b)
  IN /\ Len(x) = Len(y)
     /\ \A i \in DOMAIN x :
          IF IsCased(x[i])
          THEN IsCased(y[i]) /\ ToLower(x[i]) = ToLower(y[i])
          ELSE ~IsCased(y[i])

\* C5 as stated: names that differ only in case, in surrounding whitespace or
\* in which and how many non-letters separate their letter groups get the same
\* index.
C5_RunsCollapse ==
  (pc = "keyed" /\ SameLetterGroups(name_a, name_b)) => key_a = key_b

\* C5 amended: every non-letter becomes one separator of its own (a run is not
\* collapsed), so two names (of ASCII characters) get the same index exactly
\* when, once trimmed, they have the same length, the same letters up to case
\* at the same places and non-letters at the same places.
C5_KeyPerCharacter ==
  pc = "keyed" => (key_a = key_b <=> SameShape(name_a, name_b))

C5_Witness ==
  /\ pc = "keyed"
  /\ name_a = <<"a", "'", "b">>
  /\ name_b = <<"A", " ", "b">>
  /\ key_a = key_b
  /\ key_a = <<"a", "-", "b">>

\* the two records of the scenario
ScenarioRows ==
  << <<N_john, P_0601, E, E, E>>, <<N_John, E, E, E, E>> >>

\* C6: the records (" john doe ", "0601020304") and ("John Doe", "") merge
\* into one row with Name `John Doe` and phone `+33601020304`.
C6_MergeScenario ==
  (pc = "main" /\ MergeMode /\ consumed = ScenarioRows) =>
    /\ Len(data) = 1
    /\ data[1].row[NameCol] = N_John
    /\ data[1].row[PhoneCol] = <<"+","3","3","6","0","1","0","2","0","3","0","4">>

\* C7: once the input ended while a value of a row was under review, no other
\* value of that row is presented to the reviewer.
C7_AbortStopsRow == pc = "prompt" => eof_row # row_num

\* C8: a run in which filter() was not called ends with "Nothing to export"
\* logged, no exception and no output.
C8_NoFilterNothingToExport ==
  (pc = "done" /\ ~has_filtered) =>
    /\ outcome = "Nothing to export"
    /\ output = <<>>

\* C9: no record is processed while drop and merge are both set.
C9_BothModesRejected == ~(drop /\ merge /\ consumed # <<>>)

\* C10: every row of the parsed table has tag `phone` exactly when one of its
\* phone cells is non-blank, and tag `name` exactly when one of its name cells
\* is non-blank.
C10_TagsMatchCells ==
  \A i \in DOMAIN data :
    /\ "phone" \in data[i].tags
         <=> \E col \in select_fields("Phone [0-9]+ - Value") :
               strip(data[i].row[col]) # <<>>
    /\ "name" \in data[i].tags
         <=> \E col \in select_fields("Name") :
               strip(data[i].row[col]) # <<>>

====
